---------------------------- MODULE Spec2Model ----------------------------
(***************************************************************************)
(* Model of src/src/lib.rs: RemoteServer (a WTS server handle plus the     *)
(* last snapshot of remote-desktop sessions), its refresh update_info,     *)
(* the iterator returned by iter(), and the Drop implementation.           *)
(*                                                                         *)
(* The Windows calls (WTSOpenServerW, WTSEnumerateSessionsW,               *)
(* WTSQuerySessionInformationW, WTSFreeMemory, WTSCloseServer,             *)
(* GetLastError) are the environment: their answers are drawn from small   *)
(* sets, and every call the code makes on them is recorded.                *)
(***************************************************************************)
EXTENDS Integers, Sequences, FiniteSets, TLC

VARIABLES
    lifecycle,      \* "unborn" | "alive" | "dropped": the RemoteServer value
    server_handle,  \* RemoteServer.server_handle (lib.rs:25)
    sessions_list,  \* RemoteServer.sessions_list (lib.rs:27)
    call,           \* the most recent update_info call: the list before it, the
                    \* OS calls it made and their answers, and what it returned
    refreshed,      \* TRUE once some update_info call has returned Ok(())
    closed,         \* the handles WTSCloseServer was called with, in order
    it              \* the SessionInfoIter borrowed from the server, if any

vars == <<lifecycle, server_handle, sessions_list, call, refreshed, closed, it>>

---------------------------------------------------------------------------
(* Bounds and input sets.                                                  *)

\* The caller calls next() at most this many times on one iterator.
MaxNext == 3

\* Session ids the enumeration may report (unique within one enumeration).
SessionIds == {1, 2}

\* Raw WTS_CONNECTSTATE_CLASS values the enumeration may report: two of the
\* ten the code knows, and one it does not.
RawStates == {0, 4, 10}

\* Values GetLastError may return after a failed call.
ErrorCodes == {5, 6}

\* WTSOpenServerW returns a usable handle or, on failure, an invalid one.
ValidHandle == "valid"
InvalidHandle == "invalid"

---------------------------------------------------------------------------
(* UTF-16 text as the code decodes it.                                     *)

IsHighSurrogate(u) == u >= 55296 /\ u <= 56319    \* 0xD800..0xDBFF
IsLowSurrogate(u)  == u >= 56320 /\ u <= 57343    \* 0xDC00..0xDFFF

\* WString::from_wchars_slice copies the fixed-size array and
\* to_string_checked converts the units before its first NUL.
RECURSIVE UntilNul(_)
UntilNul(w) ==
    IF w = <<>> \/ Head(w) = 0 THEN <<>>
    ELSE <<Head(w)>> \o UntilNul(Tail(w))

\* String::from_utf16: a sequence of code points, or a failure on an
\* unpaired surrogate.
RECURSIVE from_utf16(_)
from_utf16(u) ==
    IF u = <<>> THEN [ok |-> TRUE, chars |-> <<>>]
    ELSE IF IsLowSurrogate(u[1]) THEN [ok |-> FALSE, chars |-> <<>>]
    ELSE IF IsHighSurrogate(u[1]) THEN
        IF Len(u) >= 2 /\ IsLowSurrogate(u[2]) THEN
            LET rest == from_utf16(SubSeq(u, 3, Len(u)))
                cp   == 65536 + (u[1] - 55296) * 1024 + (u[2] - 56320)
            IN  IF rest.ok THEN [ok |-> TRUE, chars |-> <<cp>> \o rest.chars]
                ELSE rest
        ELSE [ok |-> FALSE, chars |-> <<>>]
    ELSE
        LET rest == from_utf16(Tail(u))
        IN  IF rest.ok THEN [ok |-> TRUE, chars |-> <<u[1]>> \o rest.chars]
            ELSE rest

\* WString::from_wchars_slice(&name[..]).to_string_checked()
to_string_checked(w) == from_utf16(UntilNul(w))

---------------------------------------------------------------------------
(* What the environment can answer.                                        *)

\* WTSCLIENTW records (UserName, ClientName, ClientAddressFamily,
\* ClientAddress), the name arrays cut to three units.
Alice     == [UserName |-> <<97, 0, 0>>, ClientName |-> <<87, 49, 0>>,
              ClientAddressFamily |-> 2, ClientAddress |-> <<10, 1>>]
Bob       == [UserName |-> <<98, 0, 120>>, ClientName |-> <<55357, 56832, 0>>,
              ClientAddressFamily |-> 0, ClientAddress |-> <<0, 0>>]
BadUser   == [UserName |-> <<56832, 97, 0>>, ClientName |-> <<87, 50, 0>>,
              ClientAddressFamily |-> 2, ClientAddress |-> <<10, 2>>]
BadClient == [UserName |-> <<99, 0, 0>>, ClientName |-> <<55357, 0, 0>>,
              ClientAddressFamily |-> 2, ClientAddress |-> <<10, 3>>]
ClientRecords == {Alice, Bob, BadUser, BadClient}

\* An answer of WTSQuerySessionInformationW(.., WTSClientInfo, ..): nonzero
\* with a buffer holding a record, or zero with GetLastError() = code.
QueryAnswers ==
    { [ok |-> TRUE, code |-> 0, info |-> r] : r \in ClientRecords }
    \cup { [ok |-> FALSE, code |-> c, info |-> Alice] : c \in ErrorCodes }

\* An answer after which update_info makes no further query: the query
\* failed, or a name in the record does not decode.
EndsRefresh(a) ==
    \/ ~a.ok
    \/ ~to_string_checked(a.info.UserName).ok
    \/ ~to_string_checked(a.info.ClientName).ok

\* The answers to the queries of one update_info call, by query number.
\* Only the answers to queries the call makes matter: those after an
\* answer that ends the call are fixed.
AnswerScripts ==
    [n \in 0..Cardinality(SessionIds) |->
        { a \in [1..n -> QueryAnswers] :
            \A i, j \in 1..n :
                (i < j /\ EndsRefresh(a[i])) => a[j] = [ok |-> FALSE, code |-> 5, info |-> Alice] }]

\* Sequences of WTS_SESSION_INFOW (SessionId, State) without a repeated id.
SessionInfos == [SessionId : SessionIds, State : RawStates]
SessionArrays ==
    { s \in UNION { [1..n -> SessionInfos] : n \in 0..Cardinality(SessionIds) } :
        \A i, j \in 1..Len(s) : i # j => s[i].SessionId # s[j].SessionId }

\* An answer of WTSEnumerateSessionsW: nonzero with an array, or zero with
\* GetLastError() = code.  What the OS does with a handle that a failed
\* WTSOpenServerW returned is not assumed: it may answer either way.
EnumerateAnswers ==
    { [ok |-> FALSE, code |-> c, sessions |-> <<>>] : c \in ErrorCodes }
    \cup { [ok |-> TRUE, code |-> 0, sessions |-> s] : s \in SessionArrays }

---------------------------------------------------------------------------
(* The program.                                                            *)

\* RemoteDesktopSessionState::get_variant for the ids the match arms name.
get_variant(id) ==
    CASE id = 0 -> "Active"
      [] id = 1 -> "Connected"
      [] id = 2 -> "ConnectQuery"
      [] id = 3 -> "Shadow"
      [] id = 4 -> "Disconnected"
      [] id = 5 -> "Idle"
      [] id = 6 -> "Listen"
      [] id = 7 -> "Reset"
      [] id = 8 -> "Down"
      [] id = 9 -> "Init"

\* The `_ => unreachable!()` arm: get_variant panics on any other id.
get_variant_panics(id) == id \notin 0..9

\* The value an update_info call returns, or the panic that ends it.
\* anyhow's message for a failed call formats the error code and nothing
\* else; a FromUtf16Error carries neither a code nor a session id.
\* `session` is the session id the value names: none does (-1).
Ok == [kind |-> "Ok", what |-> "", code |-> 0, session |-> -1]
Err(what, code) == [kind |-> "Err", what |-> what, code |-> code, session |-> -1]
Panic == [kind |-> "Panic", what |-> "unreachable", code |-> 0, session |-> -1]

\* Names of the buffers the OS hands out during one call.
SessionsBuffer == <<"sessions", 0>>
ClientBuffer(session_id) == <<"client", session_id>>

\* RemoteServer::fetch_client_info given the OS answer for that session:
\* the result, and the buffers allocated and freed on the way.
fetch_client_info(session_id, answer) ==
    IF ~answer.ok THEN
        [res |-> Err("couldn't read user-name", answer.code),
         info |-> [user |-> <<>>, client |-> <<>>, address |-> <<0, <<>>>>],
         allocs |-> <<>>, frees |-> <<>>]
    ELSE
        LET client_info == answer.info
            user   == to_string_checked(client_info.UserName)
            client == to_string_checked(client_info.ClientName)
            res    == IF ~user.ok THEN Err("FromUtf16Error", 0)
                      ELSE IF ~client.ok THEN Err("FromUtf16Error", 0)
                      ELSE Ok
        IN  [res |-> res,
             info |-> [user |-> user.chars, client |-> client.chars,
                       address |-> <<client_info.ClientAddressFamily,
                                     client_info.ClientAddress>>],
             allocs |-> <<ClientBuffer(session_id)>>,
             frees  |-> <<ClientBuffer(session_id)>>]

\* A push at the wrong end of the vector.
push_front(v, x) == <<x>> \o v

\* Vec::push
push(v, x) == Append(v, x)

\* The loop without the `?`: a failed query is remembered and the loop goes
\* on to the next session.
RECURSIVE for_sessions_continue(_, _, _, _)
for_sessions_continue(sessions, answers, i, r) ==
    IF i > Len(sessions) THEN
        IF r.res.kind = "Ok" THEN [r EXCEPT !.frees = Append(@, SessionsBuffer)]
        ELSE r
    ELSE
        LET ss == sessions[i] IN
        IF get_variant_panics(ss.State) THEN [r EXCEPT !.res = Panic]
        ELSE
            LET f == fetch_client_info(ss.SessionId, answers[i])
                q == [r EXCEPT !.queried = Append(@, ss.SessionId),
                               !.allocs = @ \o f.allocs,
                               !.frees = @ \o f.frees]
            IN  IF f.res.kind # "Ok" THEN
                    for_sessions_continue(sessions, answers, i + 1,
                        [q EXCEPT !.res = IF r.res.kind = "Ok" THEN f.res ELSE r.res])
                ELSE for_sessions_continue(sessions, answers, i + 1,
                        [q EXCEPT !.sessions_v = push(@,
                            [session_id |-> ss.SessionId,
                             state |-> get_variant(ss.State),
                             client_info |-> f.info])])

\* The `for ss_ptr in sessions_list` loop of update_info from index i on,
\* answers[i] being the OS answer to the query of the i-th session.  r accumulates
\* sessions_v, the session ids queried, and the buffers allocated and freed.
RECURSIVE for_sessions(_, _, _, _)
for_sessions(sessions, answers, i, r) ==
    IF i > Len(sessions) THEN
        \* WTSFreeMemory(sessions); Ok(())
        [r EXCEPT !.res = Ok, !.frees = Append(@, SessionsBuffer)]
    ELSE
        LET ss == sessions[i] IN
        IF get_variant_panics(ss.State) THEN [r EXCEPT !.res = Panic]
        ELSE
            LET f == fetch_client_info(ss.SessionId, answers[i])
                q == [r EXCEPT !.queried = Append(@, ss.SessionId),
                               !.allocs = @ \o f.allocs,
                               !.frees = @ \o f.frees]
            IN  IF f.res.kind # "Ok" THEN [q EXCEPT !.res = f.res]
                ELSE for_sessions(sessions, answers, i + 1,
                        [q EXCEPT !.sessions_v = push(@,
                            [session_id |-> ss.SessionId,
                             state |-> get_variant(ss.State),
                             client_info |-> f.info])])

\* update_info taking an empty enumeration for a failed one.
run_update_info_empty_is_error(enumerated, answers) ==
    LET start == [res |-> Ok, sessions_v |-> <<>>, queried |-> <<>>,
                  allocs |-> <<>>, frees |-> <<>>]
    IN  IF ~enumerated.ok \/ enumerated.sessions = <<>> THEN
            [start EXCEPT !.res = Err("couldn't read remote-desktop sessions info",
                                      enumerated.code)]
        ELSE for_sessions(enumerated.sessions, answers, 1,
                          [start EXCEPT !.allocs = <<SessionsBuffer>>])

\* The body of update_info given the OS answers.  The local `sessions`
\* pointer starts uninitialized; it is read only after a successful
\* WTSEnumerateSessionsW has written it, so its first value decides nothing.
run_update_info(enumerated, answers) ==
    LET start == [res |-> Ok, sessions_v |-> <<>>, queried |-> <<>>,
                  allocs |-> <<>>, frees |-> <<>>]
    IN  IF ~enumerated.ok THEN
            [start EXCEPT !.res = Err("couldn't read remote-desktop sessions info",
                                      enumerated.code)]
        ELSE for_sessions(enumerated.sessions, answers, 1,
                          [start EXCEPT !.allocs = <<SessionsBuffer>>])

\* A failed call that clears the stored list.
stored_after_cleared(r, old) == IF r.res.kind = "Ok" THEN r.sessions_v ELSE <<>>

\* A call that builds the new list in place of the stored one.
stored_after_partial(r, old) == r.sessions_v

\* self.sessions_list after the call: assigned only on the path that
\* reaches `self.sessions_list = sessions_v`.
stored_after(r, old) == IF r.res.kind = "Ok" THEN r.sessions_v ELSE old

NoCall == [res |-> [kind |-> "None", what |-> "", code |-> 0, session |-> -1],
           before |-> <<>>,
           handle |-> InvalidHandle,
           enumerated |-> [ok |-> FALSE, code |-> 0, sessions |-> <<>>],
           answers |-> <<>>,
           queried |-> <<>>, allocs |-> <<>>, frees |-> <<>>]

NoIter == [active |-> FALSE, yielded |-> <<>>, ended |-> FALSE, calls |-> 0]

Init ==
    /\ lifecycle = "unborn"
    /\ server_handle = InvalidHandle
    /\ sessions_list = <<>>
    /\ call = NoCall
    /\ refreshed = FALSE
    /\ closed = <<>>
    /\ it = NoIter

\* RemoteServer::new: the handle WTSOpenServerW returned is stored as it
\* is, and the result is always Ok.
new ==
    /\ lifecycle = "unborn"
    /\ \E h \in {ValidHandle, InvalidHandle} : server_handle' = h
    /\ sessions_list' = <<>>
    /\ lifecycle' = "alive"
    /\ UNCHANGED <<call, refreshed, closed, it>>

\* Every way one update_info call can go: what the OS answers to the
\* enumeration and to the queries the call makes, and what run_update_info
\* does with those answers.
UpdateRuns ==
    UNION { { LET r == run_update_info(e, a)
              IN  [enumerated |-> e,
                   answers |-> SubSeq(a, 1, Len(r.queried)),
                   r |-> r] : a \in AnswerScripts[Len(e.sessions)] }
            : e \in EnumerateAnswers }

\* RemoteServer::update_info (&mut self: no iterator is borrowed).
update_info ==
    /\ lifecycle = "alive"
    /\ ~it.active
    /\ \E run \in UpdateRuns :
          /\ sessions_list' = stored_after(run.r, sessions_list)
          /\ refreshed' = (refreshed \/ run.r.res.kind = "Ok")
          /\ call' = [res |-> run.r.res, before |-> sessions_list,
                      handle |-> server_handle,
                      enumerated |-> run.enumerated,
                      answers |-> run.answers,
                      queried |-> run.r.queried,
                      allocs |-> run.r.allocs, frees |-> run.r.frees]
    /\ UNCHANGED <<lifecycle, server_handle, closed, it>>

\* RemoteServer::iter
iter ==
    /\ lifecycle = "alive"
    /\ ~it.active
    /\ it' = [active |-> TRUE, yielded |-> <<>>, ended |-> FALSE, calls |-> 0]
    /\ UNCHANGED <<lifecycle, server_handle, sessions_list, call, refreshed, closed>>

\* SessionInfoIter::next: self.internal.iter().next()
next_item(internal) ==
    IF internal = <<>> THEN [some |-> FALSE, item |-> <<>>]
    ELSE [some |-> TRUE, item |-> <<internal[1]>>]

next ==
    /\ it.active
    /\ it.calls < MaxNext
    /\ LET n == next_item(sessions_list) IN
       it' = [active |-> TRUE,
              yielded |-> it.yielded \o n.item,
              ended |-> ~n.some,
              calls |-> it.calls + 1]
    /\ UNCHANGED <<lifecycle, server_handle, sessions_list, call, refreshed, closed>>

\* The iterator goes out of scope and the borrow ends.
iter_end ==
    /\ it.active
    /\ it' = NoIter
    /\ UNCHANGED <<lifecycle, server_handle, sessions_list, call, refreshed, closed>>

\* Drop for RemoteServer: WTSCloseServer(self.server_handle).
drop ==
    /\ lifecycle = "alive"
    /\ ~it.active
    /\ closed' = Append(closed, server_handle)
    /\ lifecycle' = "dropped"
    /\ UNCHANGED <<server_handle, sessions_list, call, refreshed, it>>

Next == new \/ update_info \/ iter \/ next \/ iter_end \/ drop

Spec == Init /\ [][Next]_vars

---------------------------------------------------------------------------
(* Vocabulary of the properties.                                           *)

Called == call.res.kind # "None"
EnumerationFailed == "couldn't read remote-desktop sessions info"
QueryFailed == "couldn't read user-name"
DecodeFailed == "FromUtf16Error"

\* The documented variant of each state code 0..9, in order.
Variants == <<"Active", "Connected", "ConnectQuery", "Shadow", "Disconnected",
              "Idle", "Listen", "Reset", "Down", "Init">>

\* How often buffer b occurs in the sequence s of buffers.
Occurrences(b, s) == Cardinality({ i \in 1..Len(s) : s[i] = b })
Buffers(s) == { s[i] : i \in 1..Len(s) }

\* The ids of the first k enumerated sessions, in enumeration order.
FirstIds(k) == [i \in 1..k |-> call.enumerated.sessions[i].SessionId]

\* The last call resolved every session before some session whose state
\* code is none of 0..9, and so came to classify that code.
MetInvalidCode ==
    /\ Called /\ call.enumerated.ok
    /\ Len(call.queried) < Len(call.enumerated.sessions)
    /\ call.enumerated.sessions[Len(call.queried) + 1].State \notin 0..9
    /\ \A j \in 1..Len(call.queried) :
          /\ call.answers[j].ok
          /\ to_string_checked(call.answers[j].info.UserName).ok
          /\ to_string_checked(call.answers[j].info.ClientName).ok

---------------------------------------------------------------------------
(* C1: whenever update_info fails (the enumeration fails, a client-info    *)
(* query fails for some session of the batch, or a user or client name     *)
(* fails to decode), the stored list after the call is the same sequence   *)
(* of records as before the call, the empty one included.                  *)
C1_FailedRefreshKeepsList ==
    (call.res.kind = "Err"
       /\ call.res.what \in {EnumerationFailed, QueryFailed, DecodeFailed})
    => sessions_list = call.before

\* A name failed to decode for the second session, after the first was
\* resolved, and the earlier non-empty snapshot is still stored.
C1_Witness ==
    /\ lifecycle = "alive" /\ ~it.active
    /\ call.res.kind = "Err" /\ call.res.what = DecodeFailed
    /\ Len(call.queried) = 2
    /\ call.before # <<>>
    /\ sessions_list = call.before

(* C2: every buffer the OS hands out during an update_info call (the       *)
(* session array, each client-info record) is released with WTSFreeMemory  *)
(* exactly once, whether the call succeeds or fails.                       *)
C2_EveryBufferFreedOnce ==
    call.res.kind \in {"Ok", "Err"} =>
        /\ \A b \in Buffers(call.allocs) : Occurrences(b, call.frees) = 1
        /\ Buffers(call.frees) \subseteq Buffers(call.allocs)

(* C3: a RemoteServer exists only with a valid handle (a failed            *)
(* WTSOpenServerW yields an error and no object), and no enumerate or      *)
(* query call is made with an invalid handle.                              *)
C3_HandleAlwaysValid ==
    /\ lifecycle = "alive" => server_handle = ValidHandle
    /\ Called => call.handle = ValidHandle

(* C4: after k calls of next() on an iterator over a stored list of n      *)
(* records, the records yielded are the first min(k, n) stored records in  *)
(* order, and next() has returned None exactly when k > n.                 *)
C4_IterationYieldsStoredList ==
    it.active =>
        LET n == Len(sessions_list)
            m == IF it.calls < n THEN it.calls ELSE n
        IN  /\ it.yielded = SubSeq(sessions_list, 1, m)
            /\ it.ended <=> it.calls > n

(* C5: get_variant maps 0..9 to the ten variants in the documented order,  *)
(* one to one, and an update_info call that meets any other code returns   *)
(* an InvalidStateCode error carrying that code instead of aborting.       *)
C5_ClassifyOrError ==
    /\ \A id \in 0..9 : get_variant(id) = Variants[id + 1]
    /\ \A a, b \in 0..9 : get_variant(a) = get_variant(b) => a = b
    /\ call.res.kind # "Panic"
    /\ MetInvalidCode =>
          /\ call.res.kind = "Err"
          /\ call.res.what = "InvalidStateCode"
          /\ call.res.code = call.enumerated.sessions[Len(call.queried) + 1].State

(* C6: WTSCloseServer is called exactly once in the life of a              *)
(* RemoteServer, at teardown, never twice, and never with a handle that a  *)
(* failed open did not deliver.                                            *)
C6_HandleClosedOnce ==
    /\ Len(closed) <= 1
    /\ lifecycle = "dropped" <=> Len(closed) = 1
    /\ \A i \in 1..Len(closed) : closed[i] = ValidHandle

(* C7: after a successful update_info the stored list holds exactly one    *)
(* record per enumerated (SessionId, State) pair, in enumeration order,    *)
(* with that id, the variant of that state code and the decoded client     *)
(* info the query returned for that id, and nothing of the list stored     *)
(* before; [(1,0),(2,4)] with alice/W1 and bob/(one supplementary          *)
(* character) gives [{1,Active,a,W1},{2,Disconnected,b,U+1F600}].          *)
C7_SuccessReplacesList ==
    call.res.kind = "Ok" =>
        LET e == call.enumerated.sessions IN
        /\ call.queried = FirstIds(Len(e))
        /\ Len(call.answers) = Len(e)
        /\ sessions_list =
              [i \in 1..Len(e) |->
                 [session_id |-> e[i].SessionId,
                  state |-> Variants[e[i].State + 1],
                  client_info |->
                     [user |-> to_string_checked(call.answers[i].info.UserName).chars,
                      client |-> to_string_checked(call.answers[i].info.ClientName).chars,
                      address |-> <<call.answers[i].info.ClientAddressFamily,
                                    call.answers[i].info.ClientAddress>>]]]
        /\ (/\ e = <<[SessionId |-> 1, State |-> 0], [SessionId |-> 2, State |-> 4]>>
            /\ call.answers = <<[ok |-> TRUE, code |-> 0, info |-> Alice],
                                [ok |-> TRUE, code |-> 0, info |-> Bob]>>)
           => sessions_list =
                 << [session_id |-> 1, state |-> "Active",
                     client_info |-> [user |-> <<97>>, client |-> <<87, 49>>,
                                      address |-> <<2, <<10, 1>>>>]],
                    [session_id |-> 2, state |-> "Disconnected",
                     client_info |-> [user |-> <<98>>, client |-> <<128512>>,
                                      address |-> <<0, <<0, 0>>>>]] >>

\* The two-session scenario succeeded over a different, non-empty snapshot.
C7_Witness ==
    /\ call.res.kind = "Ok"
    /\ call.enumerated.sessions =
          <<[SessionId |-> 1, State |-> 0], [SessionId |-> 2, State |-> 4]>>
    /\ call.answers = <<[ok |-> TRUE, code |-> 0, info |-> Alice],
                        [ok |-> TRUE, code |-> 0, info |-> Bob]>>
    /\ Len(call.before) = 2 /\ call.before[1].session_id = 2
    /\ Len(sessions_list) = 2

(* C8: from the construction of a RemoteServer until its first successful  *)
(* update_info the stored list is empty, failed calls included; and the    *)
(* list changes only in a step that is a successful update_info.           *)
C8_EmptyUntilFirstRefresh ==
    /\ [](~refreshed => sessions_list = <<>>)
    /\ [][sessions_list' # sessions_list =>
            /\ lifecycle = "alive" /\ ~it.active
            /\ call'.res.kind = "Ok" /\ call'.before = sessions_list
            /\ refreshed']_vars

\* A call failed at its second session, after resolving the first, on a
\* server never refreshed: the list is still empty.
C8_Witness ==
    /\ lifecycle = "alive" /\ ~refreshed
    /\ call.res.kind = "Err" /\ Len(call.queried) = 2
    /\ sessions_list = <<>>

(* C9 as stated: the sessions are queried one at a time in enumeration     *)
(* order; at the first session k whose query fails with code c the call    *)
(* stops (nothing after k is queried, k is not queried again) and returns  *)
(* a client-info error that identifies session k and carries c.            *)
C9_QueryFailureNamesSession ==
    (call.res.kind = "Err" /\ call.res.what = QueryFailed) =>
        LET k == Len(call.queried) IN
        /\ k >= 1 /\ k <= Len(call.enumerated.sessions)
        /\ call.queried = FirstIds(k)
        /\ \A i \in 1..(k - 1) : call.answers[i].ok
        /\ ~call.answers[k].ok
        /\ call.res.code = call.answers[k].code
        /\ call.res.session = call.queried[k]

(* C9 amended: as above, but the error returned carries the code c alone:  *)
(* it does not identify session k.  Every call, whatever it returns,       *)
(* queries a prefix of the enumeration in order, each session once, and    *)
(* only the last query can have failed.                                    *)
C9_QueryFailureStopsRefresh ==
    /\ Called =>
          LET k == Len(call.queried) IN
          /\ k <= Len(call.enumerated.sessions)
          /\ call.queried = FirstIds(k)
          /\ Len(call.answers) = k
          /\ \A i \in 1..(k - 1) : call.answers[i].ok
          /\ (k >= 1 /\ ~call.answers[k].ok) =>
                /\ call.res.kind = "Err" /\ call.res.what = QueryFailed
                /\ call.res.code = call.answers[k].code
    /\ (call.res.kind = "Err" /\ call.res.what = QueryFailed) =>
          /\ Len(call.queried) >= 1
          /\ ~call.answers[Len(call.queried)].ok
          /\ call.res.code = call.answers[Len(call.queried)].code
          /\ call.res.session = -1

\* Two sessions [1, 2] enumerated, the query for the second fails with 5.
C9_Witness ==
    /\ call.res.kind = "Err" /\ call.res.what = QueryFailed /\ call.res.code = 5
    /\ FirstIds(Len(call.enumerated.sessions)) = <<1, 2>>
    /\ call.queried = <<1, 2>>
    /\ call.answers[1].ok /\ ~call.answers[2].ok

(* C10: an enumeration that succeeds with zero sessions makes update_info  *)
(* return Ok with no client-info query and an empty stored list, whatever  *)
(* was stored before; an enumeration that fails makes it return the        *)
(* enumeration error with the code, the list untouched.                    *)
C10_EmptyEnumerationIsSuccess ==
    Called =>
        /\ (call.enumerated.ok /\ call.enumerated.sessions = <<>>) =>
              /\ call.res = Ok
              /\ call.queried = <<>>
              /\ sessions_list = <<>>
        /\ ~call.enumerated.ok =>
              /\ call.res.kind = "Err" /\ call.res.what = EnumerationFailed
              /\ call.res.code = call.enumerated.code
              /\ call.queried = <<>>
              /\ sessions_list = call.before
        /\ (call.res.kind = "Err" /\ call.res.what = EnumerationFailed)
              => ~call.enumerated.ok

\* A successful empty enumeration emptied a non-empty snapshot.
C10_Witness ==
    /\ call.res.kind = "Ok"
    /\ call.enumerated.ok /\ call.enumerated.sessions = <<>>
    /\ call.before # <<>>
    /\ sessions_list = <<>>

=============================================================================
